---------------------------- MODULE Spec2Model ----------------------------
(***************************************************************************)
(* The stream supervisor of src/main.py: the main thread (main,            *)
(* streaming_loop, download_video, validate_video, start_stream), the      *)
(* heartbeat thread, the transcoder subprocesses it spawns, the operator   *)
(* interrupt, and the GET /status reader of the shared stream_status       *)
(* dictionary.                                                             *)
(*                                                                         *)
(* One action is one block of the source between two accesses to shared    *)
(* state (stream_status, the asset file, a subprocess); local computation  *)
(* and logging are folded into the access that follows them.               *)
(***************************************************************************)
EXTENDS Integers, Sequences, FiniteSets, TLC

VARIABLES
    YOUTUBE_STREAM_URL,  \* TRUE iff the environment variable is set (non-empty)
    YOUTUBE_STREAM_KEY,  \* TRUE iff the environment variable is set (non-empty)
    video_file,          \* VIDEO_FILE on disk: "absent", "empty" or "nonempty"
    file0,               \* history: video_file when the process started
    stream_status,       \* the global status dictionary
    pc,                  \* position of the main thread
    attempt,             \* local variable attempt of streaming_loop
    return_code,         \* None, or Some(value last returned by start_stream)
    process,             \* id of the Popen handle held by start_stream (0: none)
    alive,               \* ids of the spawned subprocesses that have not exited
    exit_code,           \* {} while the process runs, {c} once it exited with c
    now,                 \* wall clock, in seconds
    cool_wake,           \* time at which time.sleep(5) of streaming_loop ends
                         \* (0 when the main thread is not sleeping)
    line,                \* the diagnostic line start_stream is parsing
    hb_pc,               \* position of the heartbeat thread
    start_time,          \* local variable start_time of heartbeat
    hb_wake,             \* time at which time.sleep(1) of heartbeat ends
                         \* (0 when the heartbeat is not sleeping)
    fetched,             \* history: number of network fetches performed
    spawned,             \* history: number of subprocesses spawned
    fault,               \* history: the current/last start_stream hit its except
    sigint,              \* history: number of KeyboardInterrupts delivered
    rd_idx,              \* GET /status: 0 idle, i in 1..6 next field, 7 done
    rd_snap,             \* GET /status: the values serialized so far
    rd_cands             \* history: states of stream_status, seen since the
                         \* request began, that agree with rd_snap

core_vars == <<YOUTUBE_STREAM_URL, YOUTUBE_STREAM_KEY, video_file, file0,
               stream_status, pc, attempt, return_code, process, alive,
               exit_code, now, cool_wake, line, hb_pc, start_time, hb_wake,
               fetched, spawned, fault, sigint>>

rd_vars == <<rd_idx, rd_snap, rd_cands>>

vars == <<core_vars, rd_vars>>

---------------------------------------------------------------------------
(* Bounds of the model. *)

\* The clock stops at MaxTime; with the 5 s cooldown the loop makes at most
\* 1 + MaxTime \div CooldownSeconds attempts.
MaxTime == 5

\* At most this many operator interrupts are delivered.
MaxSigint == 1

(* Constants of the program. *)

CooldownSeconds == 5

HeartbeatSeconds == 1

Sentinel == -1

SecondsPerDay == 86400

None == << >>

Some(x) == <<x>>

\* Exit statuses a transcoder subprocess reports.
ExitCodes == {0, 1}

\* The reasons str(e) that download_video records.
FailedValues == {"Failed: ConnectionError", "Failed: HTTPError"}

\* datetime.now().strftime('%H:%M:%S'): the time of day, the date dropped.
strftime(t) == t % SecondsPerDay

---------------------------------------------------------------------------
(* Diagnostic lines and the fps extraction of start_stream. A line is a    *)
(* sequence of characters.                                                 *)

Whitespace == {" ", "\n"}

FpsMarker == <<"f", "p", "s", "=">>

\* Lines the transcoder may print.
Lines ==
    { <<"\n">>,                                   \* blank
      <<"x", "\n">>,                              \* no marker
      <<"f", "p", "s", "=", "2", " ", "q", "\n">>, \* fps=2 q
      <<"f", "p", "s", "=", " ", "1", "\n">>,      \* fps= 1 (padded)
      <<"f", "p", "s", "=", "x", "\n">>,           \* fps=x: not a number
      <<"f", "p", "s", "=", "\n">> }               \* fps= and nothing after

\* line.strip(): truthy iff some character is not whitespace.
strip(l) == \E i \in 1..Len(l) : l[i] \notin Whitespace

\* Positions at which pat occurs in l.
Occurrences(l, pat) ==
    { i \in 1..(Len(l) - Len(pat) + 1) : SubSeq(l, i, i + Len(pat) - 1) = pat }

\* 'fps=' in line
HasFps(l) == Occurrences(l, FpsMarker) # {}

Min(S) == CHOOSE x \in S : \A y \in S : x <= y

\* line.split('fps=')[1]: the text between the first marker and the next one.
AfterMarker(l) ==
    LET first == Min(Occurrences(l, FpsMarker))
        from  == first + Len(FpsMarker)
        later == { i \in Occurrences(l, FpsMarker) : i >= from }
        to    == IF later = {} THEN Len(l) ELSE Min(later) - 1
    IN  SubSeq(l, from, to)

\* s.split(): the first whitespace-delimited token, None when there is none
\* (then [0] raises IndexError).
FirstToken(s) ==
    LET starts == { i \in 1..Len(s) : s[i] \notin Whitespace }
    IN  IF starts = {} THEN None
        ELSE LET a    == Min(starts)
                 ends == { i \in a..Len(s) : s[i] \in Whitespace }
                 b    == IF ends = {} THEN Len(s) ELSE Min(ends) - 1
             IN  Some(SubSeq(s, a, b))

Digits == {"0", "1", "2"}

DigitVal(c) == CASE c = "0" -> 0 [] c = "1" -> 1 [] c = "2" -> 2

RECURSIVE Number(_)
Number(tok) ==
    IF tok = << >> THEN 0
    ELSE 10 * Number(SubSeq(tok, 1, Len(tok) - 1)) + DigitVal(tok[Len(tok)])

\* float, yielding 0 for a token that is not a number.
float_or_zero(tok) ==
    IF tok # << >> /\ \A i \in 1..Len(tok) : tok[i] \in Digits
    THEN Some(Number(tok)) ELSE Some(0)

\* float(tok): None when tok is not a number (ValueError).
float(tok) ==
    IF tok # << >> /\ \A i \in 1..Len(tok) : tok[i] \in Digits
    THEN Some(Number(tok)) ELSE None

\* The try block of start_stream: Some(fps), or None when it raised.
ParseFps(l) ==
    LET tok == FirstToken(AfterMarker(l))
    IN  IF tok = None THEN None ELSE float(tok[1])

---------------------------------------------------------------------------
(* Initial state: module import, before main() runs. *)

Init ==
    /\ YOUTUBE_STREAM_URL \in BOOLEAN
    /\ YOUTUBE_STREAM_KEY \in BOOLEAN
    /\ video_file \in {"absent", "empty", "nonempty"}
    /\ file0 = video_file
    /\ stream_status = [ is_streaming    |-> FALSE,
                         attempt         |-> 0,
                         uptime_seconds  |-> 0,
                         last_restart    |-> None,
                         fps             |-> 0,
                         download_status |-> "Not started" ]
    /\ pc = "main"
    /\ attempt = 0
    /\ return_code = None
    /\ process = 0
    /\ alive = {}
    /\ exit_code = {}
    /\ now = 0
    /\ cool_wake = 0
    /\ line = << >>
    /\ hb_pc = "unstarted"
    /\ start_time = 0
    /\ hb_wake = 0
    /\ fetched = 0
    /\ spawned = 0
    /\ fault = FALSE
    /\ sigint = 0
    /\ rd_idx = 0
    /\ rd_snap = << >>
    /\ rd_cands = {}

---------------------------------------------------------------------------
(* The main thread. *)

Running == exit_code = {}

\* The keys of stream_status, in the order of the dictionary.
Fields == <<"is_streaming", "attempt", "uptime_seconds", "last_restart",
            "fps", "download_status">>

\* st agrees with the values a request in flight has serialized so far.
Agrees(st) == \A i \in 1..Len(rd_snap) : st[Fields[i]] = rd_snap[i]

\* stream_status[field] = value. (For a request in flight, the new state of
\* the dictionary is recorded when it agrees with what was serialized.)
SetStatus(field, value) ==
    LET new == [stream_status EXCEPT ![field] = value]
    IN  /\ stream_status' = new
        /\ rd_cands' = IF rd_idx # 0 /\ Agrees(new)
                       THEN rd_cands \cup {new} ELSE rd_cands

\* sys.exit(code) reaching the top of the main thread.
Exit(code) ==
    /\ exit_code' = {code}
    /\ pc' = "exited"

\* main(): starts the heartbeat and Flask threads, then calls streaming_loop.
Main ==
    /\ pc = "main"
    /\ pc' = "validate_environment"
    /\ hb_pc' = "start"
    /\ UNCHANGED <<rd_idx, rd_snap, rd_cands,
                   YOUTUBE_STREAM_URL, YOUTUBE_STREAM_KEY, video_file, file0,
                   stream_status, attempt, return_code, process, alive,
                   exit_code, now, cool_wake, line, start_time, hb_wake,
                   fetched, spawned, fault, sigint>>

\* ValidateEnvironment, checking YOUTUBE_STREAM_URL only.
ValidateEnvironmentUrlOnly ==
    /\ pc = "validate_environment"
    /\ IF ~YOUTUBE_STREAM_URL
       THEN Exit(1)
       ELSE pc' = "download_video" /\ UNCHANGED exit_code
    /\ UNCHANGED <<rd_idx, rd_snap, rd_cands,
                   YOUTUBE_STREAM_URL, YOUTUBE_STREAM_KEY, video_file, file0,
                   stream_status, attempt, return_code, process, alive,
                   now, cool_wake, line, hb_pc, start_time, hb_wake,
                   fetched, spawned, fault, sigint>>

\* validate_environment(): sys.exit(1) when either value is missing.
ValidateEnvironment ==
    /\ pc = "validate_environment"
    /\ IF ~YOUTUBE_STREAM_URL \/ ~YOUTUBE_STREAM_KEY
       THEN Exit(1)
       ELSE pc' = "download_video" /\ UNCHANGED exit_code
    /\ UNCHANGED <<rd_idx, rd_snap, rd_cands,
                   YOUTUBE_STREAM_URL, YOUTUBE_STREAM_KEY, video_file, file0,
                   stream_status, attempt, return_code, process, alive,
                   now, cool_wake, line, hb_pc, start_time, hb_wake,
                   fetched, spawned, fault, sigint>>

\* DownloadVideo, without the os.path.exists check: it always fetches.
DownloadVideoAlways ==
    /\ pc = "download_video"
    /\ SetStatus("download_status", "Downloading...")
    /\ pc' = "fetching"
    /\ UNCHANGED <<rd_idx, rd_snap,
                   YOUTUBE_STREAM_URL, YOUTUBE_STREAM_KEY, video_file, file0,
                   attempt, return_code, process, alive, exit_code,
                   now, cool_wake, line, hb_pc, start_time, hb_wake,
                   fetched, spawned, fault, sigint>>

\* download_video() up to the request: an existing file is reused as it is.
DownloadVideo ==
    /\ pc = "download_video"
    /\ IF video_file # "absent"
       THEN /\ SetStatus("download_status", "Already downloaded")
            /\ pc' = "validate_video"
       ELSE /\ SetStatus("download_status", "Downloading...")
            /\ pc' = "fetching"
    /\ UNCHANGED <<rd_idx, rd_snap,
                   YOUTUBE_STREAM_URL, YOUTUBE_STREAM_KEY, video_file, file0,
                   attempt, return_code, process, alive, exit_code,
                   now, cool_wake, line, hb_pc, start_time, hb_wake,
                   fetched, spawned, fault, sigint>>

\* FetchComplete, without the write of 'Complete'.
FetchCompleteNoStatus ==
    /\ pc = "fetching"
    /\ \E content \in {"empty", "nonempty"} : video_file' = content
    /\ fetched' = fetched + 1
    /\ pc' = "validate_video"
    /\ UNCHANGED <<rd_idx, rd_snap, rd_cands, stream_status,
                   YOUTUBE_STREAM_URL, YOUTUBE_STREAM_KEY, file0,
                   attempt, return_code, process, alive, exit_code,
                   now, cool_wake, line, hb_pc, start_time, hb_wake,
                   spawned, fault, sigint>>

\* The fetch succeeds: the body (possibly of no bytes) is written to the file.
FetchComplete ==
    /\ pc = "fetching"
    /\ \E content \in {"empty", "nonempty"} : video_file' = content
    /\ fetched' = fetched + 1
    /\ SetStatus("download_status", "Complete")
    /\ pc' = "validate_video"
    /\ UNCHANGED <<rd_idx, rd_snap,
                   YOUTUBE_STREAM_URL, YOUTUBE_STREAM_KEY, file0,
                   attempt, return_code, process, alive, exit_code,
                   now, cool_wake, line, hb_pc, start_time, hb_wake,
                   spawned, fault, sigint>>

\* FetchFailed, with the result of download_video ignored by its caller.
FetchFailedIgnored ==
    /\ pc = "fetching"
    /\ \E reason \in FailedValues : SetStatus("download_status", reason)
    /\ fetched' = fetched + 1
    /\ video_file' = "absent"
    /\ pc' = "validate_video"
    /\ UNCHANGED <<rd_idx, rd_snap,
                   YOUTUBE_STREAM_URL, YOUTUBE_STREAM_KEY, file0,
                   attempt, return_code, process, alive, exit_code,
                   now, cool_wake, line, hb_pc, start_time, hb_wake,
                   spawned, fault, sigint>>

\* The fetch raises: the partial file is removed, download_video returns
\* False and streaming_loop exits with 1.
FetchFailed ==
    /\ pc = "fetching"
    /\ \E reason \in FailedValues : SetStatus("download_status", reason)
    /\ fetched' = fetched + 1
    /\ video_file' = "absent"
    /\ Exit(1)
    /\ UNCHANGED <<rd_idx, rd_snap,
                   YOUTUBE_STREAM_URL, YOUTUBE_STREAM_KEY, file0,
                   attempt, return_code, process, alive,
                   now, cool_wake, line, hb_pc, start_time, hb_wake,
                   spawned, fault, sigint>>

\* validate_video, without the size check.
validate_video_exists == video_file # "absent"

\* validate_video(): the file must exist and hold at least one byte.
validate_video == video_file = "nonempty"

ValidateVideo ==
    /\ pc = "validate_video"
    /\ IF validate_video
       THEN pc' = "loop" /\ UNCHANGED exit_code
       ELSE Exit(1)
    /\ UNCHANGED <<rd_idx, rd_snap, rd_cands,
                   YOUTUBE_STREAM_URL, YOUTUBE_STREAM_KEY, video_file, file0,
                   stream_status, attempt, return_code, process, alive,
                   now, cool_wake, line, hb_pc, start_time, hb_wake,
                   fetched, spawned, fault, sigint>>

\* LoopTop, publishing the counter before it is incremented.
LoopTopStale ==
    /\ pc = "loop"
    /\ attempt' = attempt + 1
    /\ SetStatus("attempt", attempt)
    /\ pc' = "start_stream"
    /\ UNCHANGED <<rd_idx, rd_snap,
                   YOUTUBE_STREAM_URL, YOUTUBE_STREAM_KEY, video_file, file0,
                   return_code, process, alive, exit_code,
                   now, cool_wake, line, hb_pc, start_time, hb_wake,
                   fetched, spawned, fault, sigint>>

\* Top of the while loop: attempt += 1; stream_status['attempt'] = attempt.
LoopTop ==
    /\ pc = "loop"
    /\ attempt' = attempt + 1
    /\ SetStatus("attempt", attempt + 1)
    /\ pc' = "start_stream"
    /\ UNCHANGED <<rd_idx, rd_snap,
                   YOUTUBE_STREAM_URL, YOUTUBE_STREAM_KEY, video_file, file0,
                   return_code, process, alive, exit_code,
                   now, cool_wake, line, hb_pc, start_time, hb_wake,
                   fetched, spawned, fault, sigint>>

\* start_stream() up to stream_status['is_streaming'] = True.
StartStream ==
    /\ pc = "start_stream"
    /\ SetStatus("is_streaming", TRUE)
    /\ fault' = FALSE
    /\ pc' = "last_restart"
    /\ UNCHANGED <<rd_idx, rd_snap,
                   YOUTUBE_STREAM_URL, YOUTUBE_STREAM_KEY, video_file, file0,
                   attempt, return_code, process, alive, exit_code,
                   now, cool_wake, line, hb_pc, start_time, hb_wake,
                   fetched, spawned, sigint>>

\* SetLastRestart, writing the time only while none is recorded.
SetLastRestartOnce ==
    /\ pc = "last_restart"
    /\ IF stream_status.last_restart = None
       THEN SetStatus("last_restart", Some(strftime(now)))
       ELSE UNCHANGED <<stream_status, rd_cands>>
    /\ pc' = "Popen"
    /\ UNCHANGED <<rd_idx, rd_snap,
                   YOUTUBE_STREAM_URL, YOUTUBE_STREAM_KEY, video_file, file0,
                   attempt, return_code, process, alive, exit_code,
                   now, cool_wake, line, hb_pc, start_time, hb_wake,
                   fetched, spawned, fault, sigint>>

\* stream_status['last_restart'] = datetime.now().strftime('%H:%M:%S')
SetLastRestart ==
    /\ pc = "last_restart"
    /\ SetStatus("last_restart", Some(strftime(now)))
    /\ pc' = "Popen"
    /\ UNCHANGED <<rd_idx, rd_snap,
                   YOUTUBE_STREAM_URL, YOUTUBE_STREAM_KEY, video_file, file0,
                   attempt, return_code, process, alive, exit_code,
                   now, cool_wake, line, hb_pc, start_time, hb_wake,
                   fetched, spawned, fault, sigint>>

\* subprocess.Popen(...) succeeds: a new subprocess runs.
Popen ==
    /\ pc = "Popen"
    /\ process' = attempt
    /\ alive' = alive \cup {attempt}
    /\ spawned' = spawned + 1
    /\ pc' = "read"
    /\ UNCHANGED <<rd_idx, rd_snap, rd_cands,
                   YOUTUBE_STREAM_URL, YOUTUBE_STREAM_KEY, video_file, file0,
                   stream_status, attempt, return_code, exit_code,
                   now, cool_wake, line, hb_pc, start_time, hb_wake,
                   fetched, fault, sigint>>

\* Except, without stream_status['is_streaming'] = False.
ExceptKeepsStreaming ==
    /\ UNCHANGED <<stream_status, rd_cands>>
    /\ return_code' = Some(Sentinel)
    /\ fault' = TRUE
    /\ process' = 0
    /\ cool_wake' = now + CooldownSeconds
    /\ pc' = "sleep"

\* The except clause of start_stream: is_streaming = False; return -1.
\* The caller logs and enters time.sleep(5). The Popen handle is dropped,
\* the subprocess is neither waited for nor terminated.
Except ==
    /\ SetStatus("is_streaming", FALSE)
    /\ return_code' = Some(Sentinel)
    /\ fault' = TRUE
    /\ process' = 0
    /\ cool_wake' = now + CooldownSeconds
    /\ pc' = "sleep"

\* PopenFails, with the Popen call outside the try: the exception reaches
\* the handler of __main__ (is_streaming = False; sys.exit(1)).
PopenFailsPropagates ==
    /\ pc = "Popen"
    /\ SetStatus("is_streaming", FALSE)
    /\ fault' = TRUE
    /\ Exit(1)
    /\ UNCHANGED <<rd_idx, rd_snap,
                   YOUTUBE_STREAM_URL, YOUTUBE_STREAM_KEY, video_file, file0,
                   attempt, return_code, process, alive, now, cool_wake,
                   line, hb_pc, start_time, hb_wake, fetched, spawned,
                   sigint>>

\* subprocess.Popen(...) raises (the transcoder binary is missing, ...).
PopenFails ==
    /\ pc = "Popen"
    /\ Except
    /\ UNCHANGED <<rd_idx, rd_snap,
                   YOUTUBE_STREAM_URL, YOUTUBE_STREAM_KEY, video_file, file0,
                   attempt, alive, exit_code, now, line, hb_pc, start_time,
                   hb_wake, fetched, spawned, sigint>>

\* for line in process.stdout: one line arrives. A blank line and a line
\* without 'fps=' change nothing; a line with the marker enters the try.
ReadLine ==
    /\ pc = "read"
    /\ \E l \in Lines :
         IF strip(l) /\ HasFps(l)
         THEN line' = l /\ pc' = "parse"
         ELSE UNCHANGED <<line, pc>>
    /\ UNCHANGED <<rd_idx, rd_snap, rd_cands,
                   YOUTUBE_STREAM_URL, YOUTUBE_STREAM_KEY, video_file, file0,
                   stream_status, attempt, return_code, process, alive,
                   exit_code, now, cool_wake, hb_pc, start_time, hb_wake,
                   fetched, spawned, fault, sigint>>

\* try: stream_status['fps'] = float(...)  except: pass
ParseLine ==
    /\ pc = "parse"
    /\ IF ParseFps(line) # None
       THEN SetStatus("fps", ParseFps(line)[1])
       ELSE UNCHANGED <<stream_status, rd_cands>>
    /\ line' = << >>
    /\ pc' = "read"
    /\ UNCHANGED <<rd_idx, rd_snap,
                   YOUTUBE_STREAM_URL, YOUTUBE_STREAM_KEY, video_file, file0,
                   attempt, return_code, process, alive, exit_code,
                   now, cool_wake, hb_pc, start_time, hb_wake,
                   fetched, spawned, fault, sigint>>

\* The diagnostic stream closes (the subprocess closed it, or exited).
ReadEOF ==
    /\ pc = "read"
    /\ pc' = "wait"
    /\ UNCHANGED <<rd_idx, rd_snap, rd_cands,
                   YOUTUBE_STREAM_URL, YOUTUBE_STREAM_KEY, video_file, file0,
                   stream_status, attempt, return_code, process, alive,
                   exit_code, now, cool_wake, line, hb_pc, start_time,
                   hb_wake, fetched, spawned, fault, sigint>>

\* Reading the stream or waiting raises (a line that does not decode, an OS
\* error): the except clause runs, whether or not the subprocess has exited.
IOFault ==
    /\ pc \in {"read", "wait"}
    /\ Except
    /\ UNCHANGED <<rd_idx, rd_snap,
                   YOUTUBE_STREAM_URL, YOUTUBE_STREAM_KEY, video_file, file0,
                   attempt, alive, exit_code, now, line, hb_pc, start_time,
                   hb_wake, fetched, spawned, sigint>>

\* Wait, retrying at once when the subprocess exited with 0.
WaitSkipsCooldown ==
    /\ pc = "wait"
    /\ process \notin alive
    /\ \E rc \in ExitCodes :
         /\ return_code' = Some(rc)
         /\ IF rc = 0
            THEN pc' = "loop" /\ UNCHANGED cool_wake
            ELSE pc' = "sleep" /\ cool_wake' = now + CooldownSeconds
    /\ SetStatus("is_streaming", FALSE)
    /\ process' = 0
    /\ UNCHANGED <<rd_idx, rd_snap,
                   YOUTUBE_STREAM_URL, YOUTUBE_STREAM_KEY, video_file, file0,
                   attempt, alive, exit_code, now, line, hb_pc, start_time,
                   hb_wake, fetched, spawned, fault, sigint>>

\* return_code = process.wait(); is_streaming = False; return return_code.
\* The caller logs and enters time.sleep(5).
Wait ==
    /\ pc = "wait"
    /\ process \notin alive
    /\ \E rc \in ExitCodes : return_code' = Some(rc)
    /\ SetStatus("is_streaming", FALSE)
    /\ process' = 0
    /\ cool_wake' = now + CooldownSeconds
    /\ pc' = "sleep"
    /\ UNCHANGED <<rd_idx, rd_snap,
                   YOUTUBE_STREAM_URL, YOUTUBE_STREAM_KEY, video_file, file0,
                   attempt, alive, exit_code, now, line, hb_pc, start_time,
                   hb_wake, fetched, spawned, fault, sigint>>

\* time.sleep(5) returns; back to the top of the loop.
SleepDone ==
    /\ pc = "sleep"
    /\ now >= cool_wake
    /\ pc' = "loop"
    /\ cool_wake' = 0
    /\ UNCHANGED <<rd_idx, rd_snap, rd_cands,
                   YOUTUBE_STREAM_URL, YOUTUBE_STREAM_KEY, video_file, file0,
                   stream_status, attempt, return_code, process, alive,
                   exit_code, now, line, hb_pc, start_time,
                   hb_wake, fetched, spawned, fault, sigint>>

---------------------------------------------------------------------------
(* The operator interrupt: KeyboardInterrupt is raised in the main thread. *)

\* Positions of the main thread inside start_stream.
InStartStream == {"last_restart", "Popen", "read", "parse", "wait"}

\* The interrupt unwinds to the handler of __main__:
\* stream_status['is_streaming'] = False; sys.exit(0).
KeyboardInterrupt ==
    /\ Running
    /\ pc # "parse"
    /\ sigint < MaxSigint
    /\ sigint' = sigint + 1
    /\ SetStatus("is_streaming", FALSE)
    /\ Exit(0)
    /\ UNCHANGED <<rd_idx, rd_snap,
                   YOUTUBE_STREAM_URL, YOUTUBE_STREAM_KEY, video_file, file0,
                   attempt, return_code, process, alive, now, cool_wake,
                   line, hb_pc, start_time, hb_wake, fetched, spawned, fault>>

\* The interrupt is raised inside the try of the fps extraction: the bare
\* except: pass catches it and the read loop goes on.
InterruptInParse ==
    /\ Running
    /\ pc = "parse"
    /\ sigint < MaxSigint
    /\ sigint' = sigint + 1
    /\ line' = << >>
    /\ pc' = "read"
    /\ UNCHANGED <<rd_idx, rd_snap, rd_cands,
                   YOUTUBE_STREAM_URL, YOUTUBE_STREAM_KEY, video_file, file0,
                   stream_status, attempt, return_code, process, alive,
                   exit_code, now, cool_wake, hb_pc, start_time, hb_wake,
                   fetched, spawned, fault>>

---------------------------------------------------------------------------
(* The environment: subprocesses and the clock. *)

\* A spawned subprocess exits on its own.
ProcessExits ==
    /\ \E p \in alive : alive' = alive \ {p}
    /\ UNCHANGED <<rd_idx, rd_snap, rd_cands,
                   YOUTUBE_STREAM_URL, YOUTUBE_STREAM_KEY, video_file, file0,
                   stream_status, pc, attempt, return_code, process,
                   exit_code, now, cool_wake, line, hb_pc, start_time,
                   hb_wake, fetched, spawned, fault, sigint>>

\* One second passes.
Tick ==
    /\ now < MaxTime
    /\ now' = now + 1
    /\ UNCHANGED <<rd_idx, rd_snap, rd_cands,
                   YOUTUBE_STREAM_URL, YOUTUBE_STREAM_KEY, video_file, file0,
                   stream_status, pc, attempt, return_code, process, alive,
                   exit_code, cool_wake, line, hb_pc, start_time, hb_wake,
                   fetched, spawned, fault, sigint>>

---------------------------------------------------------------------------
(* The heartbeat thread (a daemon: it ends with the process). *)

\* start_time = time.time()
HeartbeatStart ==
    /\ Running
    /\ hb_pc = "start"
    /\ start_time' = now
    /\ hb_pc' = "check"
    /\ UNCHANGED <<rd_idx, rd_snap, rd_cands,
                   YOUTUBE_STREAM_URL, YOUTUBE_STREAM_KEY, video_file, file0,
                   stream_status, pc, attempt, return_code, process, alive,
                   exit_code, now, cool_wake, line, hb_wake,
                   fetched, spawned, fault, sigint>>

\* if stream_status['is_streaming']: ... else straight to time.sleep(1)
HeartbeatCheck ==
    /\ Running
    /\ hb_pc = "check"
    /\ IF stream_status.is_streaming
       THEN hb_pc' = "write" /\ UNCHANGED hb_wake
       ELSE hb_pc' = "sleep" /\ hb_wake' = now + HeartbeatSeconds
    /\ UNCHANGED <<rd_idx, rd_snap, rd_cands,
                   YOUTUBE_STREAM_URL, YOUTUBE_STREAM_KEY, video_file, file0,
                   stream_status, pc, attempt, return_code, process, alive,
                   exit_code, now, cool_wake, line, start_time,
                   fetched, spawned, fault, sigint>>

\* HeartbeatWrite, storing the elapsed time under 'attempt'.
HeartbeatWriteAttempt ==
    /\ Running
    /\ hb_pc = "write"
    /\ SetStatus("attempt", now - start_time)
    /\ hb_pc' = "sleep"
    /\ hb_wake' = now + HeartbeatSeconds
    /\ UNCHANGED <<rd_idx, rd_snap,
                   YOUTUBE_STREAM_URL, YOUTUBE_STREAM_KEY, video_file, file0,
                   pc, attempt, return_code, process, alive,
                   exit_code, now, cool_wake, line, start_time,
                   fetched, spawned, fault, sigint>>

\* stream_status['uptime_seconds'] = int(time.time() - start_time)
HeartbeatWrite ==
    /\ Running
    /\ hb_pc = "write"
    /\ SetStatus("uptime_seconds", now - start_time)
    /\ hb_pc' = "sleep"
    /\ hb_wake' = now + HeartbeatSeconds
    /\ UNCHANGED <<rd_idx, rd_snap,
                   YOUTUBE_STREAM_URL, YOUTUBE_STREAM_KEY, video_file, file0,
                   pc, attempt, return_code, process, alive,
                   exit_code, now, cool_wake, line, start_time,
                   fetched, spawned, fault, sigint>>

\* time.sleep(1) returns.
HeartbeatWake ==
    /\ Running
    /\ hb_pc = "sleep"
    /\ now >= hb_wake
    /\ hb_pc' = "check"
    /\ hb_wake' = 0
    /\ UNCHANGED <<rd_idx, rd_snap, rd_cands,
                   YOUTUBE_STREAM_URL, YOUTUBE_STREAM_KEY, video_file, file0,
                   stream_status, pc, attempt, return_code, process, alive,
                   exit_code, now, cool_wake, line, start_time,
                   fetched, spawned, fault, sigint>>

---------------------------------------------------------------------------
(* GET /status: jsonify(stream_status) serializes the dictionary entry by  *)
(* entry. No lock is taken, so the main thread and the heartbeat may write *)
(* between two entries.                                                    *)

\* A request arrives (Flask is a daemon thread: it ends with the process).
StatusRequest ==
    /\ Running
    /\ rd_idx = 0
    /\ rd_idx' = 1
    /\ rd_snap' = << >>
    /\ rd_cands' = {stream_status}
    /\ UNCHANGED core_vars

\* The next entry of the dictionary is serialized.
StatusReadField ==
    /\ Running
    /\ rd_idx \in 1..Len(Fields)
    /\ LET v == stream_status[Fields[rd_idx]]
       IN  /\ rd_snap' = Append(rd_snap, v)
           /\ rd_cands' = { c \in rd_cands : c[Fields[rd_idx]] = v }
    /\ rd_idx' = rd_idx + 1
    /\ UNCHANGED core_vars

\* The response is sent.
StatusRespond ==
    /\ Running
    /\ rd_idx = Len(Fields) + 1
    /\ rd_idx' = 0
    /\ rd_snap' = << >>
    /\ rd_cands' = {}
    /\ UNCHANGED core_vars

Status ==
    \/ StatusRequest
    \/ StatusReadField
    \/ StatusRespond

\* GET /: index() renders the page from the entries of stream_status; the
\* page is sent and nothing is stored.
Index == Running /\ UNCHANGED vars

\* GET /health: health() reads stream_status['is_streaming'] and sends it.
Health == Running /\ UNCHANGED vars

---------------------------------------------------------------------------
(* Specifications. *)

Supervisor ==
    \/ Main
    \/ ValidateEnvironment
    \/ DownloadVideo
    \/ FetchComplete
    \/ FetchFailed
    \/ ValidateVideo
    \/ LoopTop
    \/ StartStream
    \/ SetLastRestart
    \/ Popen
    \/ PopenFails
    \/ ReadLine
    \/ ParseLine
    \/ ReadEOF
    \/ IOFault
    \/ Wait
    \/ SleepDone

Heartbeat ==
    \/ HeartbeatStart
    \/ HeartbeatCheck
    \/ HeartbeatWrite
    \/ HeartbeatWake

Core ==
    \/ Supervisor
    \/ Heartbeat
    \/ KeyboardInterrupt
    \/ InterruptInParse
    \/ ProcessExits
    \/ Tick

\* The supervisor, the ticker and the environment, no HTTP request served.
Next == Core

Spec == Init /\ [][Next]_vars

\* The main thread and the environment, with GET /status requests served.
\* (The heartbeat and the interrupt are left out: they only add writers.)
NextStatus ==
    \/ Supervisor
    \/ ProcessExits
    \/ Tick
    \/ Status

SpecStatus == Init /\ [][NextStatus]_vars

\* GET /status served while the heartbeat thread has not yet run its first
\* statement.
ServeStatus == hb_pc \in {"unstarted", "start"} /\ Status

\* All three threads and the environment, all three routes served. To keep
\* the state space finite and small, a GET /status request and the heartbeat
\* do not overlap: requests to /status are served before the heartbeat's
\* first statement, which waits for a request in flight. GET / and
\* GET /health are served at any time.
NextServe ==
    \/ Supervisor
    \/ (rd_idx = 0 /\ HeartbeatStart)
    \/ HeartbeatCheck
    \/ HeartbeatWrite
    \/ HeartbeatWake
    \/ KeyboardInterrupt
    \/ InterruptInParse
    \/ ProcessExits
    \/ Tick
    \/ Index
    \/ Health
    \/ ServeStatus

SpecServe == Init /\ [][NextServe]_vars

\* Spec with the scheduling the code relies on: time passes, time.sleep
\* returns, and the main thread runs its next statement.
FairSpec ==
    /\ Spec
    /\ WF_vars(Tick)
    /\ WF_vars(SleepDone)
    /\ WF_vars(LoopTop)

---------------------------------------------------------------------------
(* Properties. *)

\* The attempts the clock leaves room for.
Attempts == 1..(1 + MaxTime \div CooldownSeconds)

\* C1: once the loop is entered no outcome of start_stream ends it (the
\* process exits only on an operator interrupt, with 0); every return of
\* start_stream is followed by the next attempt, as far as the clock of the
\* model runs; and stream_status['attempt'] changes only at the top of the
\* loop, by exactly +1.
C1_RetryForever ==
    /\ [][ /\ stream_status'.attempt # stream_status.attempt
              => /\ pc = "loop"
                 /\ stream_status'.attempt = stream_status.attempt + 1
           /\ (pc = "loop" /\ pc' # "loop" /\ Running')
              => /\ pc' = "start_stream"
                 /\ stream_status'.attempt = stream_status.attempt + 1
           /\ (stream_status.attempt >= 1 /\ ~Running')
              => (sigint' > 0 /\ exit_code' = {0}) ]_vars
    /\ \A n \in Attempts :
         (pc = "sleep" /\ stream_status.attempt = n /\ cool_wake <= MaxTime)
           ~> (stream_status.attempt = n + 1 \/ ~Running)

\* C1 witness: a second attempt runs after the first one ended in a fault.
C1_Witness ==
    /\ stream_status.attempt = 2
    /\ return_code = Some(Sentinel)
    /\ pc = "read"

\* C2: stream_status['is_streaming'] is true exactly while the main thread
\* is inside start_stream, past its first statement and before its return:
\* false before the first attempt, during every cooldown, and after a return
\* by the normal path or by the except clause.
C2_StreamingIffInRunner ==
    stream_status.is_streaming <=> pc \in InStartStream

\* C2 witness: the runner of a second attempt is streaming after the first
\* attempt returned through the except clause.
C2_Witness ==
    /\ stream_status.is_streaming
    /\ stream_status.attempt = 2
    /\ return_code = Some(Sentinel)
    /\ pc = "wait"

\* C3: at most one spawned subprocess is alive.
C3_SingleFlight == Cardinality(alive) <= 1

ConfigPresent == YOUTUBE_STREAM_URL /\ YOUTUBE_STREAM_KEY

\* Positions of the main thread before the streaming loop.
Startup == {"main", "validate_environment", "download_video", "fetching",
            "validate_video"}

NeverStreamed ==
    /\ spawned = 0
    /\ attempt = 0
    /\ stream_status.attempt = 0
    /\ ~stream_status.is_streaming

\* C5: with the configuration present and a zero-byte asset file on disk,
\* validate_video fails, the loop is never entered, no subprocess is
\* spawned, 'attempt' stays 0, 'is_streaming' stays false, and the process
\* exits with 1 (unless the operator interrupts it first).
C5_EmptyAssetIsFatal ==
    (ConfigPresent /\ file0 = "empty") =>
        /\ pc \in (Startup \ {"fetching"}) \cup {"exited"}
        /\ NeverStreamed
        /\ fetched = 0
        /\ pc = "validate_video" => ~validate_video
        /\ (pc = "exited" /\ sigint = 0) => exit_code = {1}

\* C5 witness: the process exited with 1 after validating the empty file.
C5_Witness ==
    /\ ConfigPresent
    /\ file0 = "empty"
    /\ stream_status.download_status = "Already downloaded"
    /\ exit_code = {1}

\* C6: with either configuration value missing, download_video is never
\* called ('download_status' stays 'Not started', nothing is fetched), no
\* subprocess is spawned, and the process exits with 1 (unless the operator
\* interrupts it first).
C6_MissingConfigIsFatal ==
    ~ConfigPresent =>
        /\ pc \in {"main", "validate_environment", "exited"}
        /\ stream_status.download_status = "Not started"
        /\ fetched = 0
        /\ video_file = file0
        /\ NeverStreamed
        /\ (pc = "exited" /\ sigint = 0) => exit_code = {1}

\* C6 witness: the URL is set, the key is not, and the process exited with 1.
C6_Witness ==
    /\ YOUTUBE_STREAM_URL
    /\ ~YOUTUBE_STREAM_KEY
    /\ exit_code = {1}

\* C7: with a non-empty asset file on disk, nothing is fetched, the file is
\* left as it is, 'download_status' goes from 'Not started' straight to
\* 'Already downloaded', and download_video returns True (the main thread
\* goes on to validate_video and never exits with 1).
C7_ExistingAssetReused ==
    file0 = "nonempty" =>
        /\ fetched = 0
        /\ video_file = "nonempty"
        /\ pc # "fetching"
        /\ stream_status.download_status
             \in {"Not started", "Already downloaded"}
        /\ pc \notin {"main", "validate_environment", "download_video",
                      "exited"}
             => stream_status.download_status = "Already downloaded"
        /\ ConfigPresent => exit_code # {1}

\* C7 witness: the stream runs from the file that was already there.
C7_Witness ==
    /\ file0 = "nonempty"
    /\ stream_status.download_status = "Already downloaded"
    /\ pc = "read"

\* C8: a failed acquisition is fatal and is not retried: 'download_status'
\* holds a Failed value only in a process that exited with 1 after one
\* fetch, without ever calling start_stream. And a subprocess is spawned
\* (an attempt is made) only with the configuration present, download_video
\* returned True and validate_video returned True.
C8_AcquisitionFailureIsFatal ==
    /\ stream_status.download_status \in FailedValues =>
           /\ pc = "exited"
           /\ exit_code = {1}
           /\ fetched = 1
           /\ video_file = "absent"
           /\ NeverStreamed
    /\ fetched <= 1
    /\ (spawned > 0 \/ attempt > 0 \/ pc \in InStartStream) =>
           /\ ConfigPresent
           /\ stream_status.download_status
                \in {"Complete", "Already downloaded"}
           /\ validate_video

\* C8 witness: the fetch failed.
C8_Witness ==
    /\ stream_status.download_status \in FailedValues
    /\ file0 = "absent"
    /\ exit_code = {1}

\* C9: a spawn or I/O fault never leaves start_stream: it returns -1 with
\* 'is_streaming' false and the process keeps running; streaming_loop then
\* sleeps for the cooldown and starts the next attempt, numbered one higher.
C9_FaultsAbsorbed ==
    /\ [](fault =>
            /\ return_code = Some(Sentinel)
            /\ ~stream_status.is_streaming
            /\ pc \in {"sleep", "loop", "start_stream", "exited"}
            /\ pc = "exited" => (sigint > 0 /\ exit_code = {0}))
    /\ [][ /\ (pc \in InStartStream /\ pc' \notin InStartStream /\ Running')
              => pc' = "sleep" /\ cool_wake' = now + CooldownSeconds
           /\ (fault /\ pc = "sleep" /\ pc' # "sleep" /\ Running')
              => pc' = "loop" /\ now >= cool_wake
           /\ (fault /\ pc = "loop" /\ pc' # "loop" /\ Running')
              => /\ pc' = "start_stream"
                 /\ stream_status'.attempt = stream_status.attempt + 1 ]_vars

\* C9 witness: the first spawn failed and the second attempt has started.
C9_Witness ==
    /\ fault
    /\ spawned = 0
    /\ stream_status.attempt = 2
    /\ pc = "start_stream"

\* C10: every operator interrupt makes the process exit with 0, with
\* 'is_streaming' false.
C10_InterruptExitsCleanly ==
    [][sigint' > sigint =>
         /\ exit_code' = {0}
         /\ ~stream_status'.is_streaming]_vars


\* C11: once the process has exited, no subprocess it spawned is alive.
C11_NoOrphanAtExit == ~Running => alive = {}

\* The entries of stream_status the supervisor owns.
SupervisorFields == {"is_streaming", "attempt", "last_restart",
                     "download_status"}

\* C12: a step that changes 'is_streaming', 'attempt', 'last_restart' or
\* 'download_status' is a step of the main thread; a step of the heartbeat
\* thread changes no entry but 'uptime_seconds'; a step of a GET /status
\* request changes no entry; and no other step (GET /, GET /health, the
\* clock, a subprocess exiting) changes stream_status at all.
C12_SingleWriter ==
    [][ /\ (\E f \in SupervisorFields : stream_status'[f] # stream_status[f])
           => pc' # pc
        /\ (hb_pc' # hb_pc /\ pc' = pc)
           => \A f \in DOMAIN stream_status \ {"uptime_seconds"} :
                 stream_status'[f] = stream_status[f]
        /\ rd_idx' # rd_idx => stream_status' = stream_status
        /\ stream_status' # stream_status
           => pc' # pc \/ hb_pc' # hb_pc ]_vars

\* C12 witness: the main thread has written its four entries and the
\* heartbeat has written a later uptime.
C12_Witness ==
    /\ hb_pc = "sleep"
    /\ stream_status.uptime_seconds > 0
    /\ stream_status.is_streaming
    /\ stream_status.attempt = 2
    /\ stream_status.last_restart # None
    /\ stream_status.download_status = "Complete"

\* C13: 'is_streaming' is true exactly while start_stream holds the handle
\* of a subprocess it launched in this attempt and whose exit it has not
\* yet seen.
C13_StreamingIffSubprocess ==
    stream_status.is_streaming <=> process # 0

\* C14: no step taken while 'is_streaming' is false changes
\* 'uptime_seconds'.
C14_UptimeFrozenWhenIdle ==
    [][~stream_status.is_streaming =>
         stream_status'.uptime_seconds = stream_status.uptime_seconds]_vars

\* C15: while an attempt streams, 'uptime_seconds' is at most the time
\* elapsed since that attempt was launched (its 'last_restart').
C15_UptimeSinceAttempt ==
    pc \in {"Popen", "read", "parse", "wait"} =>
        stream_status.uptime_seconds <= now - stream_status.last_restart[1]

\* C16: when the subprocess is spawned, 'attempt' has been incremented for
\* this attempt (it exceeds the number of earlier spawns and equals the
\* loop's counter), 'is_streaming' is true and 'last_restart' holds the time
\* at which this attempt wrote it; 'last_restart' is written only by line
\* 139, once on every path into the spawn.
C16_OrderBeforeSpawn ==
    /\ [](pc = "Popen" =>
            /\ stream_status.is_streaming
            /\ stream_status.attempt = attempt
            /\ stream_status.attempt > spawned
            /\ stream_status.last_restart # None
            /\ stream_status.last_restart[1] <= strftime(now))
    /\ [][ /\ stream_status'.last_restart # stream_status.last_restart
              => /\ pc = "last_restart"
                 /\ pc' = "Popen"
                 /\ stream_status'.last_restart = Some(strftime(now))
           /\ (pc' = "Popen" /\ pc # "Popen")
              => /\ pc = "last_restart"
                 /\ stream_status'.last_restart = Some(strftime(now))
           /\ spawned' # spawned
              => /\ pc = "Popen"
                 /\ spawned' = spawned + 1
                 /\ stream_status.attempt > spawned ]_vars

\* C16 witness: the second attempt has spawned, with its own launch time.
C16_Witness ==
    /\ spawned = 2
    /\ stream_status.attempt = 2
    /\ stream_status.last_restart = Some(CooldownSeconds)
    /\ pc = "read"

\* C17: whatever start_stream returns, its return starts one sleep of
\* CooldownSeconds; the deadline does not move while the main thread
\* sleeps; the sleep ends only at or after the deadline and only into the
\* top of the loop, which is entered from nowhere else once an attempt was
\* made; 'attempt' is incremented only from there; and once the loop has
\* started nothing but an interrupt ends the process.
C17_FixedCooldown ==
    /\ [](pc = "sleep" =>
            /\ return_code # None
            /\ cool_wake <= now + CooldownSeconds)
    /\ [][ /\ (pc \in InStartStream /\ pc' \notin InStartStream /\ Running')
              => /\ pc' = "sleep"
                 /\ cool_wake' = now + CooldownSeconds
                 /\ return_code'[1] \in ExitCodes \cup {Sentinel}
           /\ (pc = "sleep" /\ pc' = "sleep") => cool_wake' = cool_wake
           /\ (pc = "sleep" /\ pc' # "sleep" /\ Running')
              => pc' = "loop" /\ now >= cool_wake
           /\ (pc' = "loop" /\ pc # "loop" /\ stream_status.attempt >= 1)
              => pc = "sleep"
           /\ stream_status'.attempt # stream_status.attempt
              => pc = "loop"
           /\ (Running /\ ~Running' /\ pc \notin Startup)
              => sigint' # sigint ]_vars

\* C17 witness: after a clean exit (code 0) of the first attempt the loop is
\* back at its top, five seconds later.
C17_Witness ==
    /\ pc = "loop"
    /\ stream_status.attempt = 1
    /\ return_code = Some(0)
    /\ now = CooldownSeconds

\* The fps value each line of Lines carries, read off the text of the line.
ExpectedFps(l) ==
    CASE l = <<"f", "p", "s", "=", "2", " ", "q", "\n">> -> Some(2)
      [] l = <<"f", "p", "s", "=", " ", "1", "\n">>      -> Some(1)
      [] OTHER                                            -> None

\* C18: 'fps' changes only when start_stream handles a line that carries a
\* number after 'fps=', and becomes that number; handling a line whose fps
\* token is missing or not a number changes no field of stream_status and
\* returns to the read loop; so 'fps' is kept across the end of an attempt,
\* the cooldown and the start of the next one.
C18_FpsOnlyFromLines ==
    /\ [](pc = "parse" => line \in Lines /\ strip(line) /\ HasFps(line))
    /\ [][ /\ stream_status'.fps # stream_status.fps
              => /\ pc = "parse"
                 /\ ExpectedFps(line) # None
                 /\ stream_status'.fps = ExpectedFps(line)[1]
           /\ (pc = "parse" /\ pc' # "parse" /\ ExpectedFps(line) = None
                 /\ Running')
              => /\ pc' = "read"
                 /\ stream_status' = stream_status
           /\ (pc = "parse" /\ pc' # "parse" /\ ExpectedFps(line) # None
                 /\ sigint' = sigint)
              => /\ pc' = "read"
                 /\ stream_status'.fps = ExpectedFps(line)[1] ]_vars

\* C18 witness: the second attempt starts with the fps of the first.
C18_Witness ==
    /\ stream_status.fps = 2
    /\ stream_status.attempt = 2
    /\ pc = "Popen"

\* C19: whenever 'is_streaming' is true, 'attempt' is at least 1 and
\* 'last_restart' is set.
C19_StreamingHasRestart ==
    stream_status.is_streaming =>
        /\ stream_status.attempt >= 1
        /\ stream_status.last_restart # None

\* C20: 'download_status' moves only 'Not started' -> 'Already downloaded'
\* or 'Not started' -> 'Downloading...' -> 'Complete' or a Failed value;
\* it is 'Complete' or 'Already downloaded' once an attempt was made, and
\* no step changes it once the loop is entered.
C20_DownloadStatusMoves ==
    /\ [](stream_status.attempt >= 1 =>
            stream_status.download_status
               \in {"Complete", "Already downloaded"})
    /\ [][ /\ stream_status'.download_status # stream_status.download_status
              => \/ /\ stream_status.download_status = "Not started"
                    /\ stream_status'.download_status
                         \in {"Already downloaded", "Downloading..."}
                 \/ /\ stream_status.download_status = "Downloading..."
                    /\ stream_status'.download_status
                         \in {"Complete"} \cup FailedValues
           /\ pc \notin Startup
              => stream_status'.download_status
                   = stream_status.download_status ]_vars

\* C20 witness: a freshly fetched asset is being streamed.
C20_Witness ==
    /\ stream_status.download_status = "Complete"
    /\ stream_status.attempt >= 1
    /\ stream_status.is_streaming

===========================================================================
